---- MODULE Spec2Model ----
\* A model of FormValidator (src/src/FormValidation.ts): the validator's
\* registries, the form's DOM as far as the validator reads and writes it,
\* and one action per public method and per submit event.
EXTENDS Integers, Sequences, FiniteSets, TLC

\* ------------------------------------------------------------------ bounds

\* Most field selectors registered through addField.
MaxFields == 2
\* Most group names registered through addRequiredGroup.
MaxGroups == 2
\* Most inputs the page adds to the form after it was loaded.
MaxAddedInputs == 2

\* ------------------------------------------------------- JavaScript values

Undefined == "undefined"
Null == "null"
\* What JSON.parse(JSON.stringify(e)) gives for a DOM element e: a plain
\* object without properties.
EmptyObject == "{}"
\* An HTMLElement of the page that a caller passes as msgContainer.
Container == "#msg-container"

ErrForm == "Cannot query requested HTMLFormElement."
ErrUnidentified == "Unidentified selector. The same selector should be used with addField"
ErrNotInput == "CSS Selector is not referring to an input element."
\* Calling a property that is not a function, or writing a property of undefined.
TypeError == "TypeError"

\* ------------------------------------------------------------------- rules

\* A Rule is an object: ref tells two rule objects apart that have the same
\* properties.  The two rule objects of the test suite have a name and a fn
\* and no errorMsg: reading it gives undefined.
anyARule ==
  [ref |-> "anyARule", name |-> "Is Case Insensitve A",
   errorMsg |-> Undefined]
upperCaseARule ==
  [ref |-> "upperCaseARule", name |-> "Is Upper Case A",
   errorMsg |-> Undefined]
\* A rule with all three properties of the Rule type, failing where the two
\* above fail too.
notEmptyRule ==
  [ref |-> "notEmptyRule", name |-> "Is Not Empty",
   errorMsg |-> "must not be empty"]
\* A second object with the properties of anyARule, as a caller makes who
\* writes the same rule literal again.
anyARuleAgain == [anyARule EXCEPT !.ref = "anyARuleAgain"]

Values == {"", "a", "A"}

\* String.prototype.toLowerCase on the values of the model.
ToLowerCase(v) == IF v = "A" THEN "a" ELSE v

\* rule.fn(inputElement)
RuleFn(rule, el) ==
  CASE rule.name = "Is Case Insensitve A" -> ToLowerCase(el.value) = "a"
    [] rule.name = "Is Upper Case A" -> el.value = "A"
    [] rule.name = "Is Not Empty" -> el.value # ""

\* ------------------------------------------------------------------ styles

StyleKeys ==
  {"errorMsgCssClass", "errorMsgCssStyle", "errorFieldCssClass",
   "msgContainer"}

\* The keys whose value is an object of its own, a
\* Partial<CSSStyleDeclaration>.
ObjectKeys == {"errorMsgCssStyle"}

\* Objects live in the heap under an address, and a property that holds an
\* object holds its address: two references to one object are one address.
GlobalAddr == "globalDefaultStyleOptions"
DefaultsAddr == "this.defaultStyleConfigs"
FieldStyleAddr(cssSelector) == "style:" \o cssSelector
GroupStyleAddr(groupName) == "group-style:" \o groupName
\* The object that a copy makes for property k of the object at address a.
Nested(a, k) == a \o "." \o k

globalDefaultStyleOptions ==
  [errorMsgCssClass |-> "validator-error-msg",
   errorMsgCssStyle |-> Nested(GlobalAddr, "errorMsgCssStyle"),
   errorFieldCssClass |-> "validator-error-field",
   msgContainer |-> Undefined]

\* The object of globalDefaultStyleOptions.errorMsgCssStyle.
GlobalErrorMsgCssStyle == [color |-> "#cc0000"]

\* A Partial<ValidationStyleOptions>: a key the caller left out is Undefined.
NoStyle ==
  [errorMsgCssClass |-> Undefined, errorMsgCssStyle |-> Undefined,
   errorFieldCssClass |-> Undefined, msgContainer |-> Undefined]

\* The objects a caller passes as styleOptions: {} (the parameter's default),
\* {msgContainer: element}, {errorMsgCssClass: "custom-msg"} and
\* {errorMsgCssStyle: {color: "blue"}}.
EmptyOptions == "options:{}"
ContainerOptions == "options:msgContainer"
ClassOptions == "options:errorMsgCssClass"
CssOptions == "options:errorMsgCssStyle"

CallerOptions == {EmptyOptions, ContainerOptions, ClassOptions, CssOptions}

Colors == {"blue", "red"}

\* The heap before a validator is made: the module's constant and the
\* caller's objects.
InitialHeap ==
  GlobalAddr :> globalDefaultStyleOptions
  @@ Nested(GlobalAddr, "errorMsgCssStyle") :> GlobalErrorMsgCssStyle
  @@ EmptyOptions :> NoStyle
  @@ ContainerOptions :> [NoStyle EXCEPT !.msgContainer = Container]
  @@ ClassOptions :> [NoStyle EXCEPT !.errorMsgCssClass = "custom-msg"]
  @@ CssOptions :>
       [NoStyle EXCEPT !.errorMsgCssStyle = Nested(CssOptions, "errorMsgCssStyle")]
  @@ Nested(CssOptions, "errorMsgCssStyle") :> [color |-> "blue"]

\* JSON.parse(JSON.stringify(v)) of one property value that is no plain
\* object: strings survive, a DOM element has no enumerable own properties
\* and comes back as {}, and a property whose value is undefined is dropped.
JsonCopyValue(v) == IF v = Container THEN EmptyObject ELSE v

\* dst = JSON.parse(JSON.stringify(src)): the heap with a new object at dst
\* and a new object for each object src holds.
JsonCopy(h, src, dst) ==
  LET owned == {k \in ObjectKeys : h[src][k] # Undefined}
      copy == [k \in StyleKeys |->
                 IF k \in owned THEN Nested(dst, k)
                 ELSE JsonCopyValue(h[src][k])]
  IN  [a \in DOMAIN h \cup {dst} \cup {Nested(dst, k) : k \in owned} |->
         IF a = dst THEN copy
         ELSE IF \E k \in owned : a = Nested(dst, k)
              THEN h[h[src][CHOOSE k \in owned : a = Nested(dst, k)]]
              ELSE h[a]]

\* overwriteStyleOptions(currentStyle, newStyle): the heap after the call.
\* The properties written are those of a copy of newStyle, so the objects
\* currentStyle comes to hold are new ones.
overwriteStyleOptions(h, currentStyle, newStyle) ==
  LET present == {k \in StyleKeys : h[newStyle][k] # Undefined}
      owned == present \cap ObjectKeys
      merged == [k \in StyleKeys |->
                   IF k \in owned THEN Nested(currentStyle, k)
                   ELSE IF k \in present THEN JsonCopyValue(h[newStyle][k])
                   ELSE h[currentStyle][k]]
  IN  [a \in DOMAIN h \cup {Nested(currentStyle, k) : k \in owned} |->
         IF a = currentStyle THEN merged
         ELSE IF \E k \in owned : a = Nested(currentStyle, k)
              THEN h[h[newStyle][CHOOSE k \in owned :
                                   a = Nested(currentStyle, k)]]
              ELSE h[a]]

\* --------------------------------------------------------------------- DOM

\* An element of the page: parent is the node it was inserted under.
Element(id, tag, name, cls, parent) ==
  [id |-> id, tag |-> tag, name |-> name, cls |-> cls, parent |-> parent,
   type |-> IF tag = "input" THEN "text" ELSE "",
   value |-> "", checked |-> FALSE, hidden |-> FALSE, html |-> ""]

\* An input of a group: a radio button or a checkbox.
GroupInput(id, type, name) ==
  [Element(id, "input", name, "", "form") EXCEPT !.type = type]

\* The page the validator is bound to, in document order.
InitialDom ==
  << Element("i1", "input", "input-1", "", "form"),
     Element("span", "span", "", "dummy-element", "form"),
     Element("i2", "input", "input-2", "", "form"),
     GroupInput("g1", "radio", "required-group"),
     GroupInput("g2", "radio", "required-group"),
     GroupInput("g3", "checkbox", "required-group") >>

FormSelectors == {"form", "#someOtherForm"}

\* document.querySelector(formCssSelector)
DocumentQuery(formCssSelector) ==
  IF formCssSelector = "form" THEN "form" ELSE Null

GroupNames == {"required-group", "second-group"}

\* Whether element el matches CSS selector sel.
Matches(sel, el) ==
  CASE sel = "input" -> el.tag = "input"
    [] sel = "[name='input-1']" -> el.name = "input-1"
    [] sel = "[name='input-2']" -> el.name = "input-2"
    [] sel = ".dummy-element" -> el.cls = "dummy-element"
    [] OTHER -> FALSE

\* formElement.querySelector(sel): the position in d of the first element
\* of the form that matches, 0 for null.
QuerySelector(d, sel) ==
  LET hits == {i \in 1..Len(d) : d[i].parent = "form" /\ Matches(sel, d[i])}
  IN  IF hits = {} THEN 0 ELSE CHOOSE i \in hits : \A j \in hits : i <= j

\* formElement.querySelectorAll(`input[name='${groupName}']`)
QueryGroup(d, groupName) ==
  {i \in 1..Len(d) :
     d[i].parent = "form" /\ d[i].tag = "input" /\ d[i].name = groupName}

\* d with element e inserted right after position i.
InsertAfter(d, i, e) == SubSeq(d, 1, i) \o <<e>> \o SubSeq(d, i + 1, Len(d))

\* The position in d of the element with this id, 0 when there is none.
IndexOfId(d, id) ==
  LET hits == {i \in 1..Len(d) : d[i].id = id}
  IN  IF hits = {} THEN 0 ELSE CHOOSE i \in hits : TRUE

\* What the innerHTML setter makes of the value assigned to it: a string as
\* it is, undefined the text "undefined".
ToDOMString(v) == IF v = Undefined THEN "undefined" ELSE v

\* The div document.createElement makes for the field registered as sel.
MsgId(sel) == "msg:" \o sel

\* ------------------------------------------------------------------- state

VARIABLES
  constructed,          \* a FormValidator instance exists
  formElement,          \* this.formElement
  itemsToValidate,      \* this.itemsToValidate, in Object.keys order
  requiredGroups,       \* this.requiredGroups, in Object.keys order
  defaultStyleConfigs,  \* this.defaultStyleConfigs, an address
  heap,                 \* the style objects, by address
  submitCallback,       \* this.submitCallback
  dom,                  \* the elements of the page, in document order
  added,                \* inputs the page added after loading
  result,               \* outcome of the last call or event
  evaluated,            \* entries the last validate() evaluated, in order
  event                 \* the last submit event after its listeners ran

vars ==
  << constructed, formElement, itemsToValidate, requiredGroups,
     defaultStyleConfigs, heap, submitCallback, dom, added, result,
     evaluated, event >>

Callbacks == {"cb1", "cb2"}
\* The initial (event) => {} of the submitCallback field.
NoopCallback == "noop"

NoResult == [op |-> "none", arg |-> "", kind |-> "none", value |-> FALSE, error |-> ""]
Return(op, arg, value) ==
  [op |-> op, arg |-> arg, kind |-> "return", value |-> value, error |-> ""]
Throw(op, arg, error) ==
  [op |-> op, arg |-> arg, kind |-> "throw", value |-> FALSE, error |-> error]

NoEvent ==
  [fired |-> FALSE, defaultPrevented |-> FALSE, propagationStopped |-> FALSE,
   called |-> <<>>]

Keys(entries) == {entries[i].key : i \in 1..Len(entries)}

\* entries.hasOwnProperty(key)
HasKey(entries, key) == key \in Keys(entries)

\* The position of entries[key] in Object.keys order.
IndexOf(entries, key) == CHOOSE i \in 1..Len(entries) : entries[i].key = key

Init ==
  /\ constructed = FALSE
  /\ formElement = Null
  /\ itemsToValidate = <<>>
  /\ requiredGroups = <<>>
  /\ defaultStyleConfigs = Undefined
  /\ heap = InitialHeap
  /\ submitCallback = NoopCallback
  /\ dom = InitialDom
  /\ added = 0
  /\ result = NoResult
  /\ evaluated = <<>>
  /\ event = NoEvent

\* -------------------------------------------------------------- operations

\* Constructor without its check of the queried form: adding the listener
\* to null is what throws then.
ConstructorUnguarded(h, formCssSelector, styleOptions) ==
  LET fe == DocumentQuery(formCssSelector)
  IN  [thrown |-> IF fe = Null THEN TypeError ELSE "",
       formElement |-> fe,
       heap |-> overwriteStyleOptions(JsonCopy(h, GlobalAddr, DefaultsAddr),
                                      DefaultsAddr, styleOptions)]

\* The constructor up to its throw: the form it queried, whether it threw,
\* and the heap with the instance's defaultStyleConfigs.
Constructor(h, formCssSelector, styleOptions) ==
  LET fe == DocumentQuery(formCssSelector)
  IN  IF fe = Null
      THEN [thrown |-> ErrForm, formElement |-> fe,
            heap |-> JsonCopy(h, GlobalAddr, DefaultsAddr)]
      ELSE [thrown |-> "", formElement |-> fe,
            heap |->
              overwriteStyleOptions(JsonCopy(h, GlobalAddr, DefaultsAddr),
                                    DefaultsAddr, styleOptions)]

\* new FormValidator(formCssSelector, styleOptions): a constructor that throws
\* leaves the caller without an instance.
Construct(formCssSelector, styleOptions) ==
  /\ ~constructed
  /\ LET c == Constructor(heap, formCssSelector, styleOptions)
     IN  IF c.thrown # ""
         THEN /\ result' = Throw("constructor", formCssSelector, c.thrown)
              /\ UNCHANGED << constructed, formElement, defaultStyleConfigs,
                              heap >>
         ELSE /\ constructed' = TRUE
              /\ formElement' = c.formElement
              /\ defaultStyleConfigs' = DefaultsAddr
              /\ heap' = c.heap
              /\ result' = Return("constructor", formCssSelector, TRUE)
  /\ evaluated' = <<>>
  /\ event' = NoEvent
  /\ UNCHANGED << itemsToValidate, requiredGroups, submitCallback, dom, added >>

\* onSubmit(submitCallback)
OnSubmit(cb) ==
  /\ constructed
  /\ submitCallback' = cb
  /\ result' = NoResult
  /\ evaluated' = <<>>
  /\ event' = NoEvent
  /\ UNCHANGED << constructed, formElement, itemsToValidate, requiredGroups,
                  defaultStyleConfigs, heap, dom, added >>

\* addField pushing every rule onto an array, present already or not.
AddRulesPushed(set, rules) == set \o rules

\* Set.prototype.add for each rule of the array, in order: a rule already in
\* the set keeps its place.
RECURSIVE AddRules(_, _)
AddRules(set, rules) ==
  IF rules = <<>> THEN set
  ELSE AddRules(IF \E i \in 1..Len(set) : set[i] = Head(rules)
                THEN set ELSE Append(set, Head(rules)),
                Tail(rules))

\* addField that hands a new entry the validator's default style object
\* itself instead of a copy of it.
addFieldSharedDefaults(h, items, defaults, cssSelector, rules, styleOptions) ==
  IF HasKey(items, cssSelector)
  THEN LET i == IndexOf(items, cssSelector)
       IN  [items |-> [items EXCEPT ![i].rules = AddRules(@, rules)],
            heap |-> overwriteStyleOptions(h, items[i].style, styleOptions)]
  ELSE [items |->
          Append(items,
            [key |-> cssSelector,
             isValid |-> FALSE,
             style |-> defaults,
             rules |-> AddRules(<<>>, rules),
             msgElement |-> Undefined]),
        heap |-> overwriteStyleOptions(h, defaults, styleOptions)]

\* this.itemsToValidate and the heap after addField(cssSelector, rules,
\* styleOptions).
addField(h, items, defaults, cssSelector, rules, styleOptions) ==
  IF HasKey(items, cssSelector)
  THEN LET i == IndexOf(items, cssSelector)
       IN  [items |-> [items EXCEPT ![i].rules = AddRules(@, rules)],
            heap |-> overwriteStyleOptions(h, items[i].style, styleOptions)]
  ELSE LET style == FieldStyleAddr(cssSelector)
       IN  [items |->
              Append(items,
                [key |-> cssSelector,
                 isValid |-> FALSE,
                 style |-> style,
                 rules |-> AddRules(<<>>, rules),
                 msgElement |-> Undefined]),
            heap |-> overwriteStyleOptions(JsonCopy(h, defaults, style),
                                           style, styleOptions)]

AddField(cssSelector, rules, styleOptions) ==
  /\ constructed
  /\ HasKey(itemsToValidate, cssSelector) \/ Len(itemsToValidate) < MaxFields
  /\ LET a == addField(heap, itemsToValidate, defaultStyleConfigs,
                       cssSelector, rules, styleOptions)
     IN  /\ itemsToValidate' = a.items
         /\ heap' = a.heap
  /\ result' = NoResult
  /\ evaluated' = <<>>
  /\ event' = NoEvent
  /\ UNCHANGED << constructed, formElement, requiredGroups,
                  defaultStyleConfigs, submitCallback, dom, added >>

\* this.requiredGroups and the heap after addRequiredGroup(groupName,
\* errorMsg, styleOptions).
addRequiredGroup(h, groups, defaults, groupName, errorMsg, styleOptions) ==
  IF HasKey(groups, groupName)
  THEN LET i == IndexOf(groups, groupName)
       IN  [groups |-> [groups EXCEPT ![i].errorMsg = errorMsg],
            heap |-> overwriteStyleOptions(h, groups[i].style, styleOptions)]
  ELSE LET style == GroupStyleAddr(groupName)
       IN  [groups |->
              Append(groups,
                [key |-> groupName,
                 isValid |-> FALSE,
                 errorMsg |-> errorMsg,
                 style |-> style]),
            heap |-> overwriteStyleOptions(JsonCopy(h, defaults, style),
                                           style, styleOptions)]

\* The default of addRequiredGroup's errorMsg parameter.
DefaultGroupErrorMsg == "Group is required."

GroupErrorMsgs == {DefaultGroupErrorMsg}

AddRequiredGroup(groupName, errorMsg, styleOptions) ==
  /\ constructed
  /\ HasKey(requiredGroups, groupName) \/ Len(requiredGroups) < MaxGroups
  /\ LET a == addRequiredGroup(heap, requiredGroups, defaultStyleConfigs,
                               groupName, errorMsg, styleOptions)
     IN  /\ requiredGroups' = a.groups
         /\ heap' = a.heap
  /\ result' = NoResult
  /\ evaluated' = <<>>
  /\ event' = NoEvent
  /\ UNCHANGED << constructed, formElement, itemsToValidate,
                  defaultStyleConfigs, submitCallback, dom, added >>

\* The rule loop without its early return: the last failing rule is the one
\* whose message stays.
LastFailing(rules, i, el) ==
  LET fails == {j \in i..Len(rules) : ~RuleFn(rules[j], el)}
  IN  IF fails = {} THEN 0 ELSE CHOOSE j \in fails : \A n \in fails : n <= j

\* The rule loop of validateField: the position of the first rule whose fn
\* returns false on el, 0 when every rule passes.
RECURSIVE FirstFailing(_, _, _)
FirstFailing(rules, i, el) ==
  IF i > Len(rules) THEN 0
  ELSE IF ~RuleFn(rules[i], el) THEN i
  ELSE FirstFailing(rules, i + 1, el)

\* The checks with the element looked up before the registry.
validateFieldErrorElementFirst(items, d, fe, cssSelector) ==
  IF fe = Null THEN ErrForm
  ELSE IF QuerySelector(d, cssSelector) = 0
          \/ d[QuerySelector(d, cssSelector)].tag # "input"
  THEN ErrNotInput
  ELSE IF ~HasKey(items, cssSelector) THEN ErrUnidentified
  ELSE ""

\* The three checks validateField makes before it touches anything: the
\* message of the error it throws, "" when it goes on.
validateFieldError(items, d, fe, cssSelector) ==
  IF fe = Null THEN ErrForm
  ELSE IF ~HasKey(items, cssSelector) THEN ErrUnidentified
  ELSE IF QuerySelector(d, cssSelector) = 0
          \/ d[QuerySelector(d, cssSelector)].tag # "input"
  THEN ErrNotInput
  ELSE ""

\* The test of entry.msgElement == undefined: the entry has no message
\* element yet and the call makes one.
MsgElementMissing(entry) == entry.msgElement = Undefined

\* ShowError adding the message to what the element already holds.
ShowErrorAppended(d, m, errorMsg) ==
  [d EXCEPT ![m].html = @ \o ToDOMString(errorMsg), ![m].hidden = FALSE]

\* The page after the message element at position m was given the failing
\* rule's message and shown.
ShowError(d, m, errorMsg) ==
  [d EXCEPT ![m].html = ToDOMString(errorMsg), ![m].hidden = FALSE]

\* validateField(cssSelector) on registry items and page d: the registry and
\* the page after the call, and what the call returned or threw.
validateField(items, d, fe, cssSelector) ==
  IF validateFieldError(items, d, fe, cssSelector) # ""
  THEN [items |-> items, dom |-> d,
        out |-> Throw("validateField", cssSelector,
                      validateFieldError(items, d, fe, cssSelector))]
  ELSE
    LET k == IndexOf(items, cssSelector)
        entry == items[k]
        at == QuerySelector(d, cssSelector)
        inputElement == d[at]
        fresh == MsgElementMissing(entry)
        container == heap[entry.style].msgContainer
    IN  IF fresh /\ container # Undefined /\ container # Container
        THEN \* msgContainer is a plain object: appendChild is not a function
             [items |-> items, dom |-> d,
              out |-> Throw("validateField", cssSelector, TypeError)]
        ELSE
          LET div == [Element(MsgId(cssSelector), "div", "", "",
                              IF container = Undefined THEN "form"
                              ELSE Container)
                        EXCEPT !.hidden = TRUE]
              d1 == IF ~fresh THEN d
                    ELSE IF container = Undefined
                         THEN InsertAfter(d, at, div)
                         ELSE Append(d, div)
              items1 == IF fresh
                        THEN [items EXCEPT ![k].msgElement = div.id]
                        ELSE items
              m == IndexOfId(d1, items1[k].msgElement)
              f == FirstFailing(entry.rules, 1, inputElement)
          IN  IF f # 0
              THEN [items |-> [items1 EXCEPT ![k].isValid = FALSE],
                    dom |-> ShowError(d1, m, entry.rules[f].errorMsg),
                    out |-> Return("validateField", cssSelector, FALSE)]
              ELSE [items |-> items1,
                    dom |-> [d1 EXCEPT ![m].hidden = TRUE],
                    out |-> Return("validateField", cssSelector, TRUE)]

ValidateField(cssSelector) ==
  /\ constructed
  /\ LET r == validateField(itemsToValidate, dom, formElement, cssSelector)
     IN  /\ itemsToValidate' = r.items
         /\ dom' = r.dom
         /\ result' = r.out
  /\ evaluated' = <<>>
  /\ event' = NoEvent
  /\ UNCHANGED << constructed, formElement, requiredGroups,
                  defaultStyleConfigs, heap, submitCallback, added >>

\* validateRequiredGroup asking every input of the group to be checked.
validateRequiredGroupEvery(groups, d, fe, groupName) ==
  IF fe = Null
  THEN [groups |-> groups,
        out |-> Throw("validateRequiredGroup", groupName, ErrForm)]
  ELSE
    LET checked == \A i \in QueryGroup(d, groupName) : d[i].checked
    IN  IF ~HasKey(groups, groupName)
        THEN [groups |-> groups,
              out |-> Throw("validateRequiredGroup", groupName, TypeError)]
        ELSE [groups |->
                [groups EXCEPT ![IndexOf(groups, groupName)].isValid = checked],
              out |-> Return("validateRequiredGroup", groupName, checked)]

\* validateRequiredGroup(groupName): the registry after the call and what
\* the call returned or threw.
validateRequiredGroup(groups, d, fe, groupName) ==
  IF fe = Null
  THEN [groups |-> groups,
        out |-> Throw("validateRequiredGroup", groupName, ErrForm)]
  ELSE
    LET checked == \E i \in QueryGroup(d, groupName) : d[i].checked
    IN  IF ~HasKey(groups, groupName)
        THEN \* this.requiredGroups[groupName] is undefined
             [groups |-> groups,
              out |-> Throw("validateRequiredGroup", groupName, TypeError)]
        ELSE [groups |->
                [groups EXCEPT ![IndexOf(groups, groupName)].isValid = checked],
              out |-> Return("validateRequiredGroup", groupName, checked)]

ValidateRequiredGroup(groupName) ==
  /\ constructed
  /\ LET r == validateRequiredGroup(requiredGroups, dom, formElement, groupName)
     IN  /\ requiredGroups' = r.groups
         /\ result' = r.out
  /\ evaluated' = <<>>
  /\ event' = NoEvent
  /\ UNCHANGED << constructed, formElement, itemsToValidate,
                  defaultStyleConfigs, heap, submitCallback, dom, added >>

\* The field loop with result = this.validateField(key): the last field
\* decides.
RECURSIVE ValidateFieldsLastWins(_, _)
ValidateFieldsLastWins(m, i) ==
  IF i > Len(m.items) \/ m.thrown # "" THEN m
  ELSE
    LET r == validateField(m.items, m.dom, m.form, m.items[i].key)
        seen == Append(m.evaluated, [kind |-> "field", key |-> m.items[i].key])
    IN  ValidateFieldsLastWins(
          [m EXCEPT !.items = r.items,
                    !.dom = r.dom,
                    !.evaluated = seen,
                    !.result = (r.out.kind = "return" /\ r.out.value),
                    !.thrown = r.out.error],
          i + 1)

\* The field loop with each validateField in a try block: a field whose
\* evaluation throws counts as invalid and the loop goes on.
RECURSIVE ValidateFieldsCatching(_, _)
ValidateFieldsCatching(m, i) ==
  IF i > Len(m.items) THEN m
  ELSE IF ~m.result THEN ValidateFieldsCatching(m, i + 1)
  ELSE
    LET r == validateField(m.items, m.dom, m.form, m.items[i].key)
        seen == Append(m.evaluated, [kind |-> "field", key |-> m.items[i].key])
    IN  ValidateFieldsCatching(
          [m EXCEPT !.items = r.items,
                    !.dom = r.dom,
                    !.evaluated = seen,
                    !.result = (r.out.kind = "return" /\ r.out.value)],
          i + 1)

\* One turn of validate()'s loop over Object.keys(this.itemsToValidate):
\* result &&= this.validateField(key) calls validateField only while result
\* is still true, and a throw ends validate().
RECURSIVE ValidateFields(_, _)
ValidateFields(m, i) ==
  IF i > Len(m.items) \/ m.thrown # "" THEN m
  ELSE IF ~m.result THEN ValidateFields(m, i + 1)
  ELSE
    LET r == validateField(m.items, m.dom, m.form, m.items[i].key)
        seen == Append(m.evaluated, [kind |-> "field", key |-> m.items[i].key])
    IN  ValidateFields(
          [m EXCEPT !.items = r.items,
                    !.dom = r.dom,
                    !.evaluated = seen,
                    !.result = (r.out.kind = "return" /\ r.out.value),
                    !.thrown = r.out.error],
          i + 1)

\* The same for the loop over Object.keys(this.requiredGroups).
RECURSIVE ValidateGroups(_, _)
ValidateGroups(m, i) ==
  IF i > Len(m.groups) \/ m.thrown # "" THEN m
  ELSE IF ~m.result THEN ValidateGroups(m, i + 1)
  ELSE
    LET r == validateRequiredGroup(m.groups, m.dom, m.form, m.groups[i].key)
        seen == Append(m.evaluated, [kind |-> "group", key |-> m.groups[i].key])
    IN  ValidateGroups(
          [m EXCEPT !.groups = r.groups,
                    !.evaluated = seen,
                    !.result = (r.out.kind = "return" /\ r.out.value),
                    !.thrown = r.out.error],
          i + 1)

\* validate(): both registries and the page after the call, the entries it
\* evaluated, its result, and the error it threw ("" when it returned).
validate(items, groups, d, fe) ==
  ValidateGroups(
    ValidateFields(
      [items |-> items, groups |-> groups, dom |-> d, form |-> fe,
       result |-> TRUE, thrown |-> "", evaluated |-> <<>>],
      1),
    1)

Validate ==
  /\ constructed
  /\ LET m == validate(itemsToValidate, requiredGroups, dom, formElement)
     IN  /\ itemsToValidate' = m.items
         /\ requiredGroups' = m.groups
         /\ dom' = m.dom
         /\ evaluated' = m.evaluated
         /\ result' = IF m.thrown # ""
                      THEN Throw("validate", "", m.thrown)
                      ELSE Return("validate", "", m.result)
  /\ event' = NoEvent
  /\ UNCHANGED << constructed, formElement, defaultStyleConfigs, heap,
                  submitCallback, added >>

\* The listener without the return after stopImmediatePropagation.
submitListenerFallsThrough(m, callback) ==
  IF m.thrown # ""
  THEN [fired |-> TRUE, defaultPrevented |-> FALSE,
        propagationStopped |-> FALSE, called |-> <<>>]
  ELSE [fired |-> TRUE, defaultPrevented |-> ~m.result,
        propagationStopped |-> ~m.result, called |-> <<callback>>]

\* The submit listener the constructor adds, run on one submit event whose
\* validate() ended as m: the event when the listener is done. A listener
\* that throws has called neither preventDefault nor the callback.
submitListener(m, callback) ==
  IF m.thrown # ""
  THEN [fired |-> TRUE, defaultPrevented |-> FALSE,
        propagationStopped |-> FALSE, called |-> <<>>]
  ELSE IF ~m.result
  THEN [fired |-> TRUE, defaultPrevented |-> TRUE,
        propagationStopped |-> TRUE, called |-> <<>>]
  ELSE [fired |-> TRUE, defaultPrevented |-> FALSE,
        propagationStopped |-> FALSE, called |-> <<callback>>]

\* The user submits the form: the listener runs once.
Submit ==
  /\ constructed
  /\ LET m == validate(itemsToValidate, requiredGroups, dom, formElement)
     IN  /\ itemsToValidate' = m.items
         /\ requiredGroups' = m.groups
         /\ dom' = m.dom
         /\ evaluated' = m.evaluated
         /\ event' = submitListener(m, submitCallback)
         /\ result' = IF m.thrown # ""
                      THEN Throw("submit", "", m.thrown)
                      ELSE Return("submit", "", m.result)
  /\ UNCHANGED << constructed, formElement, defaultStyleConfigs, heap,
                  submitCallback, added >>

\* ------------------------------------------------------------- the page

\* The user types into a text input.
SetValue(i, v) ==
  /\ i \in 1..Len(dom)
  /\ dom[i].tag = "input" /\ dom[i].name \notin GroupNames
  /\ dom[i].value # v
  /\ dom' = [dom EXCEPT ![i].value = v]
  /\ result' = NoResult
  /\ evaluated' = <<>>
  /\ event' = NoEvent
  /\ UNCHANGED << constructed, formElement, itemsToValidate, requiredGroups,
                  defaultStyleConfigs, heap, submitCallback, added >>

\* The page after input i was checked or unchecked: checking a radio button
\* unchecks the other radio buttons of its group, those of the same form
\* and name.
WithChecked(d, i, b) ==
  [j \in 1..Len(d) |->
     IF j = i THEN [d[j] EXCEPT !.checked = b]
     ELSE IF /\ b /\ d[i].type = "radio" /\ d[j].type = "radio"
             /\ d[j].name = d[i].name /\ d[j].parent = d[i].parent
          THEN [d[j] EXCEPT !.checked = FALSE]
          ELSE d[j]]

\* The user checks or unchecks an input of a group.
SetChecked(i, b) ==
  /\ i \in 1..Len(dom)
  /\ dom[i].tag = "input" /\ dom[i].name \in GroupNames
  /\ dom[i].checked # b
  /\ dom' = WithChecked(dom, i, b)
  /\ result' = NoResult
  /\ evaluated' = <<>>
  /\ event' = NoEvent
  /\ UNCHANGED << constructed, formElement, itemsToValidate, requiredGroups,
                  defaultStyleConfigs, heap, submitCallback, added >>

\* The page appends one more, unchecked, checkbox to a group.
AddInput(groupName) ==
  /\ added < MaxAddedInputs
  /\ added' = added + 1
  /\ dom' = Append(dom,
              GroupInput("added:" \o ToString(added + 1), "checkbox",
                         groupName))
  /\ result' = NoResult
  /\ evaluated' = <<>>
  /\ event' = NoEvent
  /\ UNCHANGED << constructed, formElement, itemsToValidate, requiredGroups,
                  defaultStyleConfigs, heap, submitCallback >>

\* ------------------------------------------------------------ the caller

\* The caller writes the color of the errorMsgCssStyle object that one of
\* its option objects holds: options.errorMsgCssStyle.color = color.
CallerSetsColor(options, color) ==
  /\ heap[options].errorMsgCssStyle # Undefined
  /\ heap[heap[options].errorMsgCssStyle].color # color
  /\ heap' = [heap EXCEPT ![heap[options].errorMsgCssStyle].color = color]
  /\ result' = NoResult
  /\ evaluated' = <<>>
  /\ event' = NoEvent
  /\ UNCHANGED << constructed, formElement, itemsToValidate, requiredGroups,
                  defaultStyleConfigs, submitCallback, dom, added >>

\* ------------------------------------------------------ specifications

\* The registrations of the test suite's form: a field with two rules, a
\* field with one, and a selector that is no input.
TestFields ==
  { [sel |-> "[name='input-1']", rules |-> <<anyARule, upperCaseARule>>],
    [sel |-> "[name='input-2']", rules |-> <<anyARule>>],
    [sel |-> ".dummy-element", rules |-> <<anyARule>>] }

TestGroups == {"required-group"}

\* The whole interface on the test suite's form, with default styles.
Next ==
  \/ \E f \in FormSelectors : Construct(f, EmptyOptions)
  \/ \E cb \in Callbacks : OnSubmit(cb)
  \/ \E f \in TestFields : AddField(f.sel, f.rules, EmptyOptions)
  \/ \E f \in TestFields : ValidateField(f.sel)
  \/ \E g \in TestGroups, msg \in GroupErrorMsgs :
       AddRequiredGroup(g, msg, EmptyOptions)
  \/ \E g \in TestGroups : ValidateRequiredGroup(g)
  \/ Validate
  \/ Submit
  \/ \E i \in 1..Len(dom), v \in Values : SetValue(i, v)
  \/ \E i \in 1..Len(dom), b \in BOOLEAN : SetChecked(i, b)

Spec == Init /\ [][Next]_vars

\* One text input reached through two selectors, rule arrays that overlap
\* and styles that set a message container: the field operations alone.
FieldSelectors == {"input", "[name='input-1']", ".dummy-element"}

FieldRuleArrays ==
  { <<anyARule>>, <<notEmptyRule, upperCaseARule, anyARule>> }

FieldStyles == {EmptyOptions, ContainerOptions}

NextField ==
  \/ \E f \in FormSelectors : Construct(f, EmptyOptions)
  \/ \E sel \in FieldSelectors, rules \in FieldRuleArrays, s \in FieldStyles :
       AddField(sel, rules, s)
  \/ \E sel \in FieldSelectors : ValidateField(sel)
  \/ \E v \in Values : SetValue(1, v)

SpecField == Init /\ [][NextField]_vars

\* The group operations alone, on a page that grows.
NextGroup ==
  \/ \E f \in FormSelectors : Construct(f, EmptyOptions)
  \/ \E g \in GroupNames, msg \in GroupErrorMsgs :
       AddRequiredGroup(g, msg, EmptyOptions)
  \/ \E g \in GroupNames : ValidateRequiredGroup(g)
  \/ \E i \in 1..Len(dom), b \in BOOLEAN : SetChecked(i, b)
  \/ \E g \in GroupNames : AddInput(g)

SpecGroup == Init /\ [][NextGroup]_vars

\* The registrations alone, with every kind of style override, and a caller
\* that goes on writing to an object it passed.
StyleSelectors == {"[name='input-1']", "[name='input-2']"}

NextStyle ==
  \/ \E f \in FormSelectors, o \in CallerOptions : Construct(f, o)
  \/ \E sel \in StyleSelectors, o \in CallerOptions :
       AddField(sel, <<anyARule>>, o)
  \/ \E g \in TestGroups, msg \in GroupErrorMsgs, o \in CallerOptions :
       AddRequiredGroup(g, msg, o)
  \/ \E o \in CallerOptions, c \in Colors : CallerSetsColor(o, c)

SpecStyle == Init /\ [][NextStyle]_vars

\* Two selectors of one input given rules over and over: arrays that share
\* rule objects, one that names an object twice, and a second object with
\* the properties of anyARule.
RuleSelectors == {"input", "[name='input-1']"}

RuleArrays ==
  { <<anyARule>>, <<notEmptyRule, upperCaseARule, anyARule>>,
    <<anyARuleAgain, upperCaseARule, anyARuleAgain>> }

NextRules ==
  \/ \E f \in FormSelectors : Construct(f, EmptyOptions)
  \/ \E sel \in RuleSelectors, rules \in RuleArrays :
       AddField(sel, rules, EmptyOptions)
  \/ \E sel \in RuleSelectors : ValidateField(sel)
  \/ \E v \in Values : SetValue(1, v)

SpecRules == Init /\ [][NextRules]_vars

\* ------------------------------------------------------------------ claims

\* The entry registered under a key.
FieldEntry(key) == itemsToValidate[IndexOf(itemsToValidate, key)]
GroupEntry(key) == requiredGroups[IndexOf(requiredGroups, key)]

\* The input a registered selector resolves to on the page.
FieldInput(key) == dom[QuerySelector(dom, key)]

\* The message element of a field that has one.
MsgElement(key) == dom[IndexOfId(dom, FieldEntry(key).msgElement)]

\* Every rule of the field passes on the input's value.
AllRulesPass(key) ==
  \A i \in 1..Len(FieldEntry(key).rules) :
    RuleFn(FieldEntry(key).rules[i], FieldInput(key))

\* The positions of the rules that fail, none before it.
IsFirstFailure(key, i) ==
  /\ ~RuleFn(FieldEntry(key).rules[i], FieldInput(key))
  /\ \A j \in 1..(i - 1) : RuleFn(FieldEntry(key).rules[j], FieldInput(key))

\* At least one input of the form with this name is checked.
AnyChecked(groupName) ==
  \E i \in 1..Len(dom) :
    /\ dom[i].parent = "form" /\ dom[i].tag = "input"
    /\ dom[i].name = groupName /\ dom[i].checked

\* C1: when validateField(selector) returns, it returns true iff every rule
\* of the field passes on the input's value; when it returns false the
\* field's message element is visible and holds the errorMsg of the first
\* rule, in insertion order, that fails.
C1_FirstFailingRuleDecides ==
  (result.op = "validateField" /\ result.kind = "return") =>
    /\ result.value = AllRulesPass(result.arg)
    /\ ~result.value =>
         /\ FieldEntry(result.arg).msgElement # Undefined
         /\ ~MsgElement(result.arg).hidden
         /\ \E i \in 1..Len(FieldEntry(result.arg).rules) :
              /\ IsFirstFailure(result.arg, i)
              /\ MsgElement(result.arg).html =
                   ToDOMString(FieldEntry(result.arg).rules[i].errorMsg)

\* A false result on a value that fails all three rules: the message is
\* that of the first.
C1_Witness ==
  /\ result = Return("validateField", "input", FALSE)
  /\ FieldEntry("input").rules = <<notEmptyRule, upperCaseARule, anyARule>>
  /\ FieldInput("input").value = ""
  /\ MsgElement("input").html = notEmptyRule.errorMsg

\* Every registered entry, fields in registration order and then groups.
AllEntries ==
  [i \in 1..Len(itemsToValidate) |->
     [kind |-> "field", key |-> itemsToValidate[i].key]]
  \o [i \in 1..Len(requiredGroups) |->
        [kind |-> "group", key |-> requiredGroups[i].key]]

\* C2: a validate() that returns has evaluated every registered field and
\* every registered group, whatever the earlier entries gave.
C2_ValidateEvaluatesEveryEntry ==
  (result.op = "validate" /\ result.kind = "return") =>
    evaluated = AllEntries

\* No evaluation of a registered entry throws on this page.
NoEvaluationThrows ==
  \A i \in 1..Len(itemsToValidate) :
    /\ validateFieldError(itemsToValidate, dom, formElement,
                          itemsToValidate[i].key) = ""
    /\ \/ itemsToValidate[i].msgElement # Undefined
       \/ heap[itemsToValidate[i].style].msgContainer = Undefined

\* Every registered field passes its rules and every registered group has
\* a checked input.
FormValid ==
  /\ \A i \in 1..Len(itemsToValidate) : AllRulesPass(itemsToValidate[i].key)
  /\ \A i \in 1..Len(requiredGroups) : AnyChecked(requiredGroups[i].key)

\* C3: on a form where no evaluation throws, validate() returns, and returns
\* true iff every registered field passes all its rules and every registered
\* group has a checked input, in whatever order they were registered.
C3_ValidateIsConjunction ==
  (result.op = "validate" /\ NoEvaluationThrows) =>
    /\ result.kind = "return"
    /\ result.value = FormValid

\* validate() is false although the field registered first passes: the
\* second field and the group are what fail.
C3_Witness ==
  /\ result = Return("validate", "", FALSE)
  /\ Len(itemsToValidate) = 2 /\ Len(requiredGroups) = 1
  /\ NoEvaluationThrows
  /\ itemsToValidate[1].key = "[name='input-2']"
  /\ AllRulesPass(itemsToValidate[1].key)
  /\ ~AllRulesPass(itemsToValidate[2].key)

\* C4: a submit event whose validate() is false is cancelled, stopped and
\* reaches no callback; one whose validate() is true calls the submit
\* callback in force, the last one registered, exactly once.
C4_SubmitGatesCallback ==
  (result.op = "submit" /\ result.kind = "return") =>
    /\ NoEvaluationThrows => result.value = FormValid
    /\ ~result.value =>
         /\ event.defaultPrevented
         /\ event.propagationStopped
         /\ event.called = <<>>
    /\ result.value => event.called = <<submitCallback>>

\* A submission that passes on a form one of whose fields still holds the
\* message of an earlier failure: the callback in force is called once.
C4_Witness ==
  /\ result = Return("submit", "", TRUE)
  /\ event.called = <<"cb2">>
  /\ Len(itemsToValidate) = 2 /\ Len(requiredGroups) = 1
  /\ \E i \in 1..2 :
       /\ itemsToValidate[i].msgElement # Undefined
       /\ MsgElement(itemsToValidate[i].key).html # ""

\* C5: when validateField(selector) returns, the entry's isValid is the
\* boolean it returned.
C5_IsValidIsTheResult ==
  (result.op = "validateField" /\ result.kind = "return") =>
    FieldEntry(result.arg).isValid = result.value

\* C6: a submit event whose listener throws does not let the default
\* submission through, and reaches no callback.
C6_ThrowSuppressesSubmission ==
  (result.op = "submit" /\ result.kind = "throw") =>
    /\ event.defaultPrevented
    /\ event.called = <<>>

\* C7: validateField on a selector string that was never registered throws
\* the unidentified-selector error, whatever the string resolves to; on a
\* registered selector that resolves to no input it throws the
\* not-an-input error; neither returns a boolean.
C7_ErrorKindBySelector ==
  (result.op = "validateField") =>
    /\ ~HasKey(itemsToValidate, result.arg) =>
         result = Throw("validateField", result.arg, ErrUnidentified)
    /\ (/\ HasKey(itemsToValidate, result.arg)
        /\ \/ QuerySelector(dom, result.arg) = 0
           \/ FieldInput(result.arg).tag # "input") =>
         result = Throw("validateField", result.arg, ErrNotInput)

\* The unregistered selector resolves to the input a registered one
\* resolves to.
C7_Witness ==
  /\ result = Throw("validateField", "[name='input-1']", ErrUnidentified)
  /\ HasKey(itemsToValidate, "input")
  /\ QuerySelector(dom, "[name='input-1']") = QuerySelector(dom, "input")
  /\ FieldInput("input").tag = "input"

\* C8: a constructor whose selector resolves to nothing throws the
\* form-not-found error and leaves no validator; no validator exists
\* without its form, and an evaluation without a form throws that error.
C8_MissingFormIsAnError ==
  /\ result.op = "constructor" =>
       IF DocumentQuery(result.arg) = Null
       THEN result = Throw("constructor", result.arg, ErrForm) /\ ~constructed
       ELSE result.kind = "return" /\ constructed
  /\ constructed => formElement # Null
  /\ (formElement = Null
      /\ result.op \in {"validateField", "validateRequiredGroup", "validate"}) =>
       (result.kind = "throw" /\ result.error = ErrForm)

C8_Witness ==
  /\ result = Throw("constructor", "#someOtherForm", ErrForm)
  /\ ~constructed

\* The page with one more unchecked input in the group.
WithUncheckedInput(groupName) ==
  Append(dom, GroupInput("more", "checkbox", groupName))

\* C9: validateRequiredGroup on a registered group returns true iff an input
\* of the form with that name is checked, and the entry's isValid is what it
\* returned; a further unchecked input never turns true into false.
C9_GroupValidity ==
  /\ (result.op = "validateRequiredGroup"
      /\ HasKey(requiredGroups, result.arg)) =>
       /\ result.kind = "return"
       /\ result.value = AnyChecked(result.arg)
       /\ GroupEntry(result.arg).isValid = result.value
  /\ \A i \in 1..Len(requiredGroups) :
       LET g == requiredGroups[i].key
           now == validateRequiredGroup(requiredGroups, dom, formElement, g)
           more == validateRequiredGroup(requiredGroups, WithUncheckedInput(g),
                                         formElement, g)
       IN  (constructed /\ now.out.value) =>
             (more.out.kind = "return" /\ more.out.value)

\* True on a group the page added an unchecked input to.
C9_Witness ==
  /\ result = Return("validateRequiredGroup", "required-group", TRUE)
  /\ GroupEntry("required-group").isValid
  /\ Cardinality(QueryGroup(dom, "required-group")) = 4
  /\ Cardinality({i \in QueryGroup(dom, "required-group") : dom[i].checked}) = 1

\* C10: validateRequiredGroup on a name that was never registered returns
\* whether an input with that name is checked, and does not throw.
C10_UnregisteredGroupReturns ==
  (result.op = "validateRequiredGroup"
   /\ ~HasKey(requiredGroups, result.arg)) =>
    /\ result.kind = "return"
    /\ result.value = AnyChecked(result.arg)

\* ------------------------------------------------------------------ styles

\* What a style object says, read through the objects it holds: the color
\* of its errorMsgCssStyle, and its other properties as they are.
StyleValue(h, a) ==
  [k \in StyleKeys |->
     IF k \in ObjectKeys /\ h[a][k] # Undefined THEN h[h[a][k]].color
     ELSE h[a][k]]

\* The call overwriteStyleOptions(current, options), made on heap h0 with
\* current a copy of base and leaving heap h1, was a partial overlay.
IsOverlay(h0, base, options, h1, current) ==
  LET b == StyleValue(h0, base)
      x == StyleValue(h0, options)
      m == StyleValue(h1, current)
  IN  /\ (\A k \in StyleKeys : x[k] = Undefined) => m = b
      /\ \A k \in StyleKeys : x[k] # Undefined => m[k] = x[k]
      /\ \A k \in StyleKeys : x[k] = Undefined => m[k] = b[k]
      /\ StyleValue(h1, options) = x

\* C11: every style merge is a partial overlay.  Whichever call makes it
\* (the constructor on a copy of the global default, addField and
\* addRequiredGroup on the entry's style or on a copy of the validator's
\* default), the merged style has every key of the override with the
\* override's value and every other key with the base's value, the empty
\* override changes nothing, and the caller's override object reads as
\* before.
C11_MergeIsPartialOverlay ==
  [][ /\ \A f \in FormSelectors, o \in CallerOptions :
           Construct(f, o) /\ constructed' =>
             IsOverlay(heap, GlobalAddr, o, heap', DefaultsAddr)
      /\ \A sel \in StyleSelectors, o \in CallerOptions :
           AddField(sel, <<anyARule>>, o) =>
             IsOverlay(heap,
                       IF HasKey(itemsToValidate, sel)
                       THEN FieldStyleAddr(sel) ELSE DefaultsAddr,
                       o, heap', FieldStyleAddr(sel))
      /\ \A g \in TestGroups, msg \in GroupErrorMsgs, o \in CallerOptions :
           AddRequiredGroup(g, msg, o) =>
             IsOverlay(heap,
                       IF HasKey(requiredGroups, g)
                       THEN GroupStyleAddr(g) ELSE DefaultsAddr,
                       o, heap', GroupStyleAddr(g)) ]_vars

\* The styles the validator stores, each with its owner and what it says.
StoredStyles(h, items, groups, defaults) ==
  {[owner |-> "defaultStyleConfigs", value |-> StyleValue(h, defaults)] :
     d \in {defaults} \ {Undefined}}
  \cup {[owner |-> "field " \o items[i].key,
         value |-> StyleValue(h, items[i].style)] : i \in 1..Len(items)}
  \cup {[owner |-> "group " \o groups[i].key,
         value |-> StyleValue(h, groups[i].style)] : i \in 1..Len(groups)}

\* The owners whose stored style the step changed.
ChangedStyles ==
  {s.owner :
     s \in StoredStyles(heap, itemsToValidate, requiredGroups,
                        defaultStyleConfigs)
           \ StoredStyles(heap', itemsToValidate', requiredGroups',
                          defaultStyleConfigs')}

\* C12: styles are isolated.  No step changes what the global default style
\* says; addField changes no stored style but that of the field it names,
\* addRequiredGroup none but that of the group it names; and when the caller
\* writes to an object it passed as an override, no stored style changes.
C12_StylesAreIsolated ==
  [][ /\ StyleValue(heap', GlobalAddr) = StyleValue(heap, GlobalAddr)
      /\ \A sel \in StyleSelectors, o \in CallerOptions :
           AddField(sel, <<anyARule>>, o) =>
             ChangedStyles \subseteq {"field " \o sel}
      /\ \A g \in TestGroups, msg \in GroupErrorMsgs, o \in CallerOptions :
           AddRequiredGroup(g, msg, o) =>
             ChangedStyles \subseteq {"group " \o g}
      /\ \A o \in CallerOptions, c \in Colors :
           CallerSetsColor(o, c) => ChangedStyles = {} ]_vars

\* Two fields and a group are registered; the first field took the caller's
\* errorMsgCssStyle and nobody else did, and the caller has since painted
\* its own object red.
C12_Witness ==
  /\ Len(itemsToValidate) = 2 /\ Len(requiredGroups) = 1
  /\ StyleValue(heap, itemsToValidate[1].style).errorMsgCssStyle = "blue"
  /\ StyleValue(heap, itemsToValidate[2].style).errorMsgCssStyle = "#cc0000"
  /\ StyleValue(heap, requiredGroups[1].style).errorMsgCssStyle = "#cc0000"
  /\ StyleValue(heap, defaultStyleConfigs).errorMsgCssStyle = "#cc0000"
  /\ StyleValue(heap, CssOptions).errorMsgCssStyle = "red"

\* ------------------------------------------------------- message elements

\* C13: validateField is idempotent.  A validateField(selector) made right
\* after a validateField(selector) that returned, with nothing in between,
\* returns the same boolean and leaves the page, with the message element's
\* content and visibility, and the registry as the first call left them.
C13_ValidateFieldIsIdempotent ==
  [][ \A sel \in FieldSelectors :
        (/\ result.op = "validateField" /\ result.arg = sel
         /\ result.kind = "return"
         /\ ValidateField(sel)) =>
          /\ result' = result
          /\ dom' = dom
          /\ itemsToValidate' = itemsToValidate ]_vars

\* A call has just returned false and shows its message; the same call made
\* again here gives this state back.
C13_Witness ==
  /\ result = Return("validateField", "input", FALSE)
  /\ ~MsgElement("input").hidden
  /\ MsgElement("input").html = ToDOMString(anyARule.errorMsg)
  /\ validateField(itemsToValidate, dom, formElement, "input") =
       [items |-> itemsToValidate, dom |-> dom, out |-> result]

\* C14: a message container given as an override is kept as the element it
\* is.  After addField(selector, rules, {msgContainer: c}) the entry's
\* style.msgContainer is c, and the first validateField(selector) of an entry
\* whose style has a message container returns, having put the new, hidden
\* message element inside that container.
C14_MsgContainerIsKept ==
  [][ /\ \A sel \in FieldSelectors, rules \in FieldRuleArrays :
           AddField(sel, rules, ContainerOptions) =>
             heap'[FieldStyleAddr(sel)].msgContainer = Container
      /\ \A sel \in FieldSelectors :
           (/\ ValidateField(sel)
            /\ validateFieldError(itemsToValidate, dom, formElement, sel) = ""
            /\ MsgElementMissing(FieldEntry(sel))
            /\ heap[FieldEntry(sel).style].msgContainer # Undefined) =>
             /\ result'.kind = "return"
             /\ IndexOfId(dom, MsgId(sel)) = 0
             /\ IndexOfId(dom', MsgId(sel)) # 0
             /\ dom'[IndexOfId(dom', MsgId(sel))].parent = Container ]_vars

\* ------------------------------------------------------------- rule sets

\* The position of the first occurrence of rule in rules.
FirstPosition(rules, rule) ==
  CHOOSE i \in 1..Len(rules) :
    rules[i] = rule /\ \A j \in 1..(i - 1) : rules[j] # rule

\* now is before with the rule objects of rules that before lacks added at
\* its end, each once, in the order of their first occurrence in rules.
IsRulesAdded(before, rules, now) ==
  /\ \A i, j \in 1..Len(now) : now[i] = now[j] => i = j
  /\ Len(now) >= Len(before) /\ SubSeq(now, 1, Len(before)) = before
  /\ {now[i] : i \in 1..Len(now)} =
       {before[i] : i \in 1..Len(before)} \cup {rules[i] : i \in 1..Len(rules)}
  /\ \A i, j \in (Len(before) + 1)..Len(now) :
       i < j => FirstPosition(rules, now[i]) < FirstPosition(rules, now[j])

\* C15: the rules of a field are a set by reference, in the order of first
\* addition.  Every addField(selector, rules) leaves the entry's rules as
\* they were, followed by the rule objects it did not hold yet, each once
\* and in the order the array first names them; and on an entry that exists
\* it leaves isValid and the message element as they were.
C15_RulesAreAnOrderedSet ==
  [][ \A sel \in RuleSelectors, rules \in RuleArrays :
        AddField(sel, rules, EmptyOptions) =>
          /\ IsRulesAdded(IF HasKey(itemsToValidate, sel)
                          THEN FieldEntry(sel).rules ELSE <<>>,
                          rules,
                          itemsToValidate'[IndexOf(itemsToValidate', sel)].rules)
          /\ HasKey(itemsToValidate, sel) =>
               LET i == IndexOf(itemsToValidate, sel)
               IN  /\ itemsToValidate'[i].isValid = itemsToValidate[i].isValid
                   /\ itemsToValidate'[i].msgElement =
                        itemsToValidate[i].msgElement ]_vars

\* A field that was given anyARule first and then two arrays that name it
\* again, one of them naming a second object with anyARule's properties
\* twice: anyARule is still first, both objects are there once, and the
\* message element an earlier validateField made is still the entry's.
C15_Witness ==
  /\ HasKey(itemsToValidate, "input")
  /\ FieldEntry("input").rules =
       <<anyARule, notEmptyRule, upperCaseARule, anyARuleAgain>>
  /\ FieldEntry("input").msgElement # Undefined
  /\ ~MsgElement("input").hidden

\* ---------------------------------------------------------------- validate

\* The error validateField throws for the i-th registered field before it
\* touches anything, "" when it throws none.
FieldError(i) ==
  validateFieldError(itemsToValidate, dom, formElement, itemsToValidate[i].key)

\* C16: validate() fails fast on an error.  When the evaluation of a field
\* throws and every field registered before it passes, validate() throws
\* that very error and returns no boolean, the entries it evaluated are the
\* fields up to and including that one and no field or group after it, and
\* each field before it has the hidden message element its evaluation made.
C16_ValidateFailsFast ==
  result.op = "validate" =>
    /\ \A i \in 1..Len(itemsToValidate) :
         (/\ FieldError(i) # ""
          /\ \A j \in 1..(i - 1) :
               FieldError(j) = "" /\ AllRulesPass(itemsToValidate[j].key)) =>
           /\ result = Throw("validate", "", FieldError(i))
           /\ evaluated = SubSeq(AllEntries, 1, i)
           /\ \A j \in 1..(i - 1) :
                /\ itemsToValidate[j].msgElement # Undefined
                /\ MsgElement(itemsToValidate[j].key).hidden
    /\ result.kind = "throw" =>
         /\ evaluated # <<>>
         /\ evaluated = SubSeq(AllEntries, 1, Len(evaluated))
         /\ evaluated[Len(evaluated)].kind = "field"
         /\ result.error = FieldError(Len(evaluated))

\* validate() threw on the second field, the one that is no input, after the
\* first field passed and got its message element; the group registered
\* after them was not evaluated.
C16_Witness ==
  /\ result = Throw("validate", "", ErrNotInput)
  /\ Len(itemsToValidate) = 2 /\ Len(requiredGroups) = 1
  /\ evaluated = << [kind |-> "field", key |-> "[name='input-1']"],
                    [kind |-> "field", key |-> ".dummy-element"] >>
  /\ itemsToValidate[1].msgElement # Undefined
  /\ MsgElement("[name='input-1']").hidden

\* -------------------------------------------------- one message element

\* The message elements on page d that were made for the field registered
\* as sel.
MsgElementsOf(d, sel) == {i \in 1..Len(d) : d[i].id = MsgId(sel)}

\* No field has more than one message element on the page, and a field has
\* one exactly when its entry holds one.
OneMsgElementEach ==
  \A sel \in FieldSelectors \cup {f.sel : f \in TestFields} :
    /\ Cardinality(MsgElementsOf(dom, sel)) <= 1
    /\ MsgElementsOf(dom, sel) # {} <=>
         (HasKey(itemsToValidate, sel)
          /\ FieldEntry(sel).msgElement = MsgId(sel))
    /\ HasKey(itemsToValidate, sel) =>
         FieldEntry(sel).msgElement \in {Undefined, MsgId(sel)}

\* validateField(cssSelector) on registry items and page d gets as far as
\* msgElement ?? document.createElement("div") with no msgElement: the call
\* makes a div.
CreatesElement(items, d, fe, cssSelector) ==
  /\ validateFieldError(items, d, fe, cssSelector) = ""
  /\ MsgElementMissing(items[IndexOf(items, cssSelector)])

\* C17: a field has at most one message element.  Whatever is called,
\* afterwards no field has more than one message element on the page; a
\* validateField that returns leaves the field with its one element, adding
\* it to the page only if the entry had none; and a validateField that
\* throws makes no element and leaves the page and every entry, isValid and
\* message element included, as they were.
C17_OneMsgElementPerField ==
  [][ /\ OneMsgElementEach'
      /\ (result'.op = "validateField" /\ result'.kind = "return") =>
           /\ MsgElementsOf(dom', result'.arg) # {}
           /\ Len(dom') =
                Len(dom) + (IF MsgElementsOf(dom, result'.arg) = {} THEN 1 ELSE 0)
      /\ \A sel \in FieldSelectors \cup {f.sel : f \in TestFields} :
           (ValidateField(sel) /\ result'.kind = "throw") =>
             /\ ~CreatesElement(itemsToValidate, dom, formElement, sel)
             /\ dom' = dom
             /\ itemsToValidate' = itemsToValidate ]_vars

====
